---- MODULE Spec2Model ----
(***************************************************************************)
(* complot: triangulated maps, grid heatmaps and their colorbars.          *)
(*                                                                         *)
(* The state is the last plotting call: its inputs, the values it derived  *)
(* and the primitives it handed to the drawing backend.  Every call starts *)
(* from a fresh surface, as each call of the crate builds its own chart.   *)
(*                                                                         *)
(* f64 values are modelled as exact extended rationals n/d:                *)
(*   d > 0  a finite value, 1/0 = +inf, -1/0 = -inf, 0/0 = NaN.            *)
(* Rounding and the sign of zero are not modelled (x - x is +0 in the      *)
(* default rounding mode, which is the only zero the code divides by).     *)
(***************************************************************************)
EXTENDS Integers, Sequences, FiniteSets

VARIABLES
    op,          \* the call: "none", "trimesh", "Mesh_from_iter", "trimap", "tri_heatmap",
                 \* "heatmap", "Heatmap_from", "Plot_from_iter", "Plot_from", "LogLin_from",
                 \* "Scatter_from"
    pc,          \* position inside the call: "idle", "colorbar", "present", "done"
    x, y, z,     \* the slices handed to the tri functions
    tri,         \* self.triangles(): sequence of <<i0, i1, i2>> of vertex indices (fix())
    color,       \* trimesh: the caller's [u8; 3]
    config,      \* Option<Config> after unwrap_or_default()
    data,        \* grid heatmap: (map, (rows, cols))
    cells,       \* map(): per-triangle cell values
    cells_min,   \* map() / grid heatmap: lower end of the normalisation range
    cells_max,   \* map() / grid heatmap: upper end of the normalisation range
    unit_cells,  \* map(): normalised cell values; grid heatmap: u of every element
    chart,       \* primitives drawn on the main chart, in drawing order
    colorbar,    \* the colorbar chart: its x axis and the swatch series drawn on it
    result,      \* "none", "Ok", "Err", "panic"
    presented,   \* tri::heatmap: root_area.present() has written the surface
    axes,        \* the coordinate system of the main chart, when the call builds it
    items,       \* Plot / Scatter: the items (x, vec![y1, y2, ...]) collected from the iterator
    pconfig,     \* Plot / Scatter: the Config after unwrap_or_default()
    overflow,    \* grid heatmap: an integer computation of the call left the range of its type
    builder,     \* the Config a caller is building with Config::new() and the setters
    last         \* per field of builder: the argument of the last setter call, <<>> when never set

vars == <<op, pc, x, y, z, tri, color, config, data, cells, cells_min, cells_max,
          unit_cells, chart, colorbar, result, presented, axes, items, pconfig,
          overflow, builder, last>>

\* everything but the Config under construction
callvars == <<op, pc, x, y, z, tri, color, config, data, cells, cells_min, cells_max,
              unit_cells, chart, colorbar, result, presented, axes, items, pconfig,
              overflow>>

----------------------------------------------------------------------------
(* Bounds of the explored inputs.                                          *)

\* vertex and data values are NaN or an integer of 0..MaxZ
MaxZ == 2
\* the grid heatmap's slice holds at most MaxData elements
MaxData == 2
\* rows = cols of the grid heatmap range over 0..MaxRes
MaxRes == 2
\* over-sampling factors range over 0..MaxOsf
MaxOsf == 2
\* Plot and Scatter are handed at most MaxItems items
MaxItems == 2

----------------------------------------------------------------------------
(* f64 as extended rationals.                                              *)

Sgn(i) == IF i > 0 THEN 1 ELSE IF i < 0 THEN -1 ELSE 0

Abs(i) == IF i < 0 THEN -i ELSE i

RECURSIVE Gcd(_, _)
Gcd(a, b) == IF b = 0 THEN a ELSE Gcd(b, a % b)

NaN == [n |-> 0, d |-> 0]

INFINITY == [n |-> 1, d |-> 0]

NEG_INFINITY == [n |-> -1, d |-> 0]

IsNaN(a) == a.d = 0 /\ a.n = 0

IsInf(a) == a.d = 0 /\ a.n # 0

IsFinite(a) == a.d > 0

\* the canonical form of n/d: sign in the numerator, lowest terms
Mk(n, d) ==
    IF d = 0 THEN [n |-> Sgn(n), d |-> 0]
    ELSE LET g == Gcd(Abs(n), Abs(d))
         IN  [n |-> (Sgn(d) * n) \div g, d |-> Abs(d) \div g]

Norm(a) == Mk(a.n, a.d)

\* usize / integer literal as f64
F(i) == [n |-> i, d |-> 1]

FNeg(a) == [n |-> -a.n, d |-> a.d]

FAdd(a, b) ==
    IF IsNaN(a) \/ IsNaN(b) THEN NaN
    ELSE IF a.d = 0 /\ b.d = 0 THEN (IF a.n = b.n THEN a ELSE NaN)
    ELSE IF a.d = 0 THEN a
    ELSE IF b.d = 0 THEN b
    ELSE [n |-> a.n * b.d + b.n * a.d, d |-> a.d * b.d]

FSub(a, b) == FAdd(a, FNeg(b))

FMul(a, b) ==
    IF a.d = 0 \/ b.d = 0 THEN [n |-> Sgn(a.n * b.n), d |-> 0]
    ELSE [n |-> a.n * b.n, d |-> a.d * b.d]

FDiv(a, b) ==
    IF IsNaN(a) \/ IsNaN(b) THEN NaN
    ELSE IF a.d = 0 /\ b.d = 0 THEN NaN
    ELSE IF a.d = 0 THEN [n |-> a.n * (IF b.n < 0 THEN -1 ELSE 1), d |-> 0]
    ELSE IF b.d = 0 THEN F(0)
    ELSE IF b.n = 0 THEN [n |-> Sgn(a.n), d |-> 0]
    ELSE [n |-> a.n * b.d * Sgn(b.n), d |-> a.d * Abs(b.n)]

\* IEEE comparisons: every comparison with NaN is false
FLt(a, b) ==
    /\ ~IsNaN(a)
    /\ ~IsNaN(b)
    /\ IF a.d = 0 /\ b.d = 0 THEN a.n < b.n ELSE a.n * b.d < b.n * a.d

FEq(a, b) ==
    /\ ~IsNaN(a)
    /\ ~IsNaN(b)
    /\ IF a.d = 0 \/ b.d = 0 THEN a.d = b.d /\ a.n = b.n ELSE a.n * b.d = b.n * a.d

FLe(a, b) == FLt(a, b) \/ FEq(a, b)

\* f64::max / f64::min: a NaN operand is ignored
FMax(a, b) == IF IsNaN(a) THEN b ELSE IF IsNaN(b) THEN a ELSE IF FLt(a, b) THEN b ELSE a

FMin(a, b) == IF IsNaN(a) THEN b ELSE IF IsNaN(b) THEN a ELSE IF FLt(b, a) THEN b ELSE a

\* iter().cloned().fold(f64::NEG_INFINITY, f64::max)
RECURSIVE FoldMaxFrom(_, _, _)
FoldMaxFrom(acc, s, k) ==
    IF k > Len(s) THEN acc ELSE FoldMaxFrom(FMax(acc, s[k]), s, k + 1)

\* a maximum that a NaN element poisons
FoldMax_poisoned(s) ==
    IF \E k \in 1..Len(s) : IsNaN(s[k]) THEN NaN ELSE FoldMaxFrom(NEG_INFINITY, s, 1)

FoldMax(s) == FoldMaxFrom(NEG_INFINITY, s, 1)

\* iter().cloned().fold(f64::INFINITY, f64::min)
RECURSIVE FoldMinFrom(_, _, _)
FoldMinFrom(acc, s, k) ==
    IF k > Len(s) THEN acc ELSE FoldMinFrom(FMin(acc, s[k]), s, k + 1)

FoldMin(s) == FoldMinFrom(INFINITY, s, 1)

\* the values a vertex or a data element takes
Vals == {NaN} \cup {F(v) : v \in 0..MaxZ}

----------------------------------------------------------------------------
(* Colours.  A colour is either an RGB literal or the evaluation of a      *)
(* colorous gradient at a position, kept symbolic: (gradient, position).   *)

BLACK == [cmap |-> "rgb", t |-> NaN, rgb |-> <<0, 0, 0>>]

RGBColor(c) == [cmap |-> "rgb", t |-> NaN, rgb |-> c]

\* Gradient::eval_continuous(t)
eval_continuous(cmap, t) == [cmap |-> cmap, t |-> t, rgb |-> <<>>]

\* Gradient::eval_rational(i, n): the gradient at i / (n - 1)
eval_rational(cmap, i, n) == eval_continuous(cmap, FDiv(F(i), F(n - 1)))

----------------------------------------------------------------------------
(* The Delaunay triangulation the tri functions build by inserting the     *)
(* points (x[k], y[k]) one by one.                                         *)

\* slices are indexed from 0
At(s, i) == s[i + 1]

Zip(xs, ys) == [k \in 1..(IF Len(xs) < Len(ys) THEN Len(xs) ELSE Len(ys)) |-> <<xs[k], ys[k]>>]

\* tri.insert in a loop: a position already present is overwritten, not added,
\* so the vertices are the distinct positions in order of first insertion
RECURSIVE InsertFrom(_, _, _)
InsertFrom(verts, pts, k) ==
    IF k > Len(pts) THEN verts
    ELSE InsertFrom(IF \E j \in 1..Len(verts) : verts[j] = pts[k]
                    THEN verts ELSE Append(verts, pts[k]), pts, k + 1)

Insert(pts) == InsertFrom(<<>>, pts, 1)

\* > 0: p, q, r turn counter-clockwise; 0: collinear
Orient(p, q, r) == (q[1] - p[1]) * (r[2] - p[2]) - (q[2] - p[2]) * (r[1] - p[1])

\* > 0: s lies strictly inside the circle through the counter-clockwise p, q, r
InCircle(p, q, r, s) ==
    LET ax == p[1] - s[1]  ay == p[2] - s[2]
        bx == q[1] - s[1]  by == q[2] - s[2]
        cx == r[1] - s[1]  cy == r[2] - s[2]
    IN  (ax * ax + ay * ay) * (bx * cy - cx * by)
      - (bx * bx + by * by) * (ax * cy - cx * ay)
      + (cx * cx + cy * cy) * (ax * by - bx * ay)

\* faces kept without the empty-circumcircle test
Faces_unchecked(verts) ==
    LET I == 0..(Len(verts) - 1)
    IN  {t \in I \X I \X I :
            /\ t[1] < t[2]
            /\ t[1] < t[3]
            /\ t[2] # t[3]
            /\ Orient(At(verts, t[1]), At(verts, t[2]), At(verts, t[3])) > 0}

\* the counter-clockwise triangles with an empty circumcircle, lowest index first
Faces(verts) ==
    LET I == 0..(Len(verts) - 1)
    IN  {t \in I \X I \X I :
            /\ t[1] < t[2]
            /\ t[1] < t[3]
            /\ t[2] # t[3]
            /\ Orient(At(verts, t[1]), At(verts, t[2]), At(verts, t[3])) > 0
            /\ \A s \in I \ {t[1], t[2], t[3]} :
                   InCircle(At(verts, t[1]), At(verts, t[2]), At(verts, t[3]), At(verts, s)) <= 0}

\* some edge of t has all of u on its outer side
Separates(verts, t, u) ==
    \E e \in {<<1, 2>>, <<2, 3>>, <<3, 1>>} :
        \A k \in 1..3 : Orient(At(verts, t[e[1]]), At(verts, t[e[2]]), At(verts, u[k])) <= 0

InteriorsDisjoint(verts, t, u) == Separates(verts, t, u) \/ Separates(verts, u, t)

\* the sets of faces that tile the convex hull: pairwise disjoint and maximal
\* (co-circular points leave more than one)
Tilings(verts) ==
    LET Fs == Faces(verts)
    IN  {S \in SUBSET Fs :
            /\ \A t \in S : \A u \in S \ {t} : InteriorsDisjoint(verts, t, u)
            /\ \A t \in Fs \ S : \E u \in S : ~InteriorsDisjoint(verts, t, u)}

\* triangles(): the faces of one tiling, in an order the library chooses
Enumerations(S) ==
    {s \in [1..Cardinality(S) -> S] : \A i, j \in 1..Cardinality(S) : s[i] = s[j] => i = j}

\* the tilings that inserting the vertices one by one builds: inserting vertex k
\* removes a face only when the vertex lies strictly inside its circumcircle
\* (an edge is flipped on a strict in-circle test only), so every other face
\* of the first k - 1 vertices is still there
RECURSIVE Incremental(_, _)
Incremental(verts, k) ==
    IF k = 0 THEN {{}}
    ELSE {S \in Tilings(SubSeq(verts, 1, k)) :
             \E P \in Incremental(verts, k - 1) :
                 \A t \in P :
                     InCircle(At(verts, t[1]), At(verts, t[2]), At(verts, t[3]), verts[k]) <= 0
                         => t \in S}

Triangulations(pts) ==
    LET verts == Insert(pts)
    IN  UNION {Enumerations(S) : S \in Incremental(verts, Len(verts))}

\* the point sequences explored: a triangle, the unit square (four co-circular
\* points), three collinear points, a strip of three triangles, two points, one
\* point given twice, and a triangle whose first point is given twice
PointSets ==
    { << <<0, 0>>, <<1, 0>>, <<0, 1>> >>,
      << <<0, 0>>, <<1, 0>>, <<0, 1>>, <<1, 1>> >>,
      << <<0, 0>>, <<1, 1>>, <<2, 2>> >>,
      << <<0, 0>>, <<2, 0>>, <<4, 0>>, <<1, 1>>, <<3, 1>> >>,
      << <<0, 0>>, <<1, 0>> >>,
      << <<0, 0>>, <<0, 0>> >>,
      << <<0, 0>>, <<0, 0>>, <<1, 0>>, <<0, 1>> >> }

\* the values explored on the unit square by tri::heatmap, whose colorbar has
\* 800 swatches: the scenario 0, 1, 1, 2, a constant field and a field with a NaN
SquareZs ==
    { <<[n |-> 0, d |-> 1], [n |-> 1, d |-> 1], [n |-> 1, d |-> 1], [n |-> 2, d |-> 1]>>,
      <<[n |-> 1, d |-> 1], [n |-> 1, d |-> 1], [n |-> 1, d |-> 1], [n |-> 1, d |-> 1]>>,
      <<[n |-> 0, d |-> 0], [n |-> 1, d |-> 1], [n |-> 1, d |-> 1], [n |-> 2, d |-> 1]>> }

\* the inputs (points, z) of tri::heatmap explored: every value vector on the
\* sequences of three points, SquareZs on the unit square
HeatmapInputs ==
    {<<pts, zs>> : pts \in {p \in PointSets : Len(p) = 3}, zs \in [1..3 -> Vals]}
    \cup {<<p, zs>> : p \in {q \in PointSets : Len(q) = 4}, zs \in SquareZs}

Xs(pts) == [k \in 1..Len(pts) |-> pts[k][1]]

Ys(pts) == [k \in 1..Len(pts) |-> pts[k][2]]

\* the triangulations of every explored point sequence
TriangulationOf == [pts \in PointSets |-> Triangulations(pts)]

Colors == {<<0, 0, 0>>, <<255, 0, 0>>}

----------------------------------------------------------------------------
(* Config                                                                  *)

None == [some |-> FALSE, lo |-> NaN, hi |-> NaN]

Some(lo, hi) == [some |-> TRUE, lo |-> lo, hi |-> hi]

\* Option<String>: None is the empty sequence, Some(s) is <<s>>
NoString == <<>>

SomeString(str) == <<str>>

\* XAxis::new()
XAxisNew == [label |-> NoString]

\* Config::default()
ConfigDefault ==
    [filename |-> NoString, title |-> NoString, xaxis |-> XAxisNew,
     cmap |-> "VIRIDIS", cmap_minmax |-> None, osf |-> 1]

\* the fields of Config that have a setter
Fields == {"filename", "title", "xaxis", "cmap_minmax", "osf"}

\* no setter has been called since Config::new()
NeverSet == [f \in Fields |-> <<>>]

\* Config::cmap_minmax
SetCmapMinmax(c, lo, hi) == [c EXCEPT !.cmap_minmax = Some(lo, hi)]

\* a setter that starts again from the default configuration
SetOsf_reset(c, osf) == [ConfigDefault EXCEPT !.osf = osf]

\* Config::over_sampling_factor
SetOsf(c, osf) == [c EXCEPT !.osf = osf]

\* Config::title
SetTitle(c, str) == [c EXCEPT !.title = SomeString(str)]

\* the value-range overrides explored: none, and ranges that are wider than,
\* narrower than, inside and degenerate with respect to the data
MinMaxOptions == {None, Some(F(0), F(1)), Some(F(0), F(4)), Some(F(1), F(2)), Some(F(1), F(1))}

WithMinMax(c, mm) == IF mm.some THEN SetCmapMinmax(c, mm.lo, mm.hi) ELSE c

\* the Config of the line and scatter plots: a file name, and a label and a
\* range for each axis
PlotConfigDefault ==
    [filename |-> NoString,
     xaxis |-> [label |-> NoString, range |-> None],
     yaxis |-> [label |-> NoString, range |-> None]]

\* Axis::new()
AxisNew == [label |-> NoString, range |-> None]

\* Axis::label
AxisLabel(a, str) == [a EXCEPT !.label = SomeString(str)]

\* Config::filename
SetFilename(c, str) == [c EXCEPT !.filename = SomeString(str)]

\* Config::xaxis
SetXaxis(c, a) == [c EXCEPT !.xaxis = a]

\* Config::yaxis
SetYaxis(c, a) == [c EXCEPT !.yaxis = a]

----------------------------------------------------------------------------
(* The coordinate system of a chart                                        *)

NoAxes ==
    [built |-> FALSE, x_min |-> NaN, x_max |-> NaN, y_min |-> NaN, y_max |-> NaN,
     x_desc |-> NoString, y_desc |-> NoString]

\* build_cartesian_2d(x_min..x_max, y_min..y_max), then x_desc / y_desc of the mesh
Axes(x_min, x_max, y_min, y_max, x_desc, y_desc) ==
    [built |-> TRUE, x_min |-> x_min, x_max |-> x_max, y_min |-> y_min, y_max |-> y_max,
     x_desc |-> x_desc, y_desc |-> y_desc]

\* what drawing the mesh of an axis lo..hi does: plotters computes the tick
\* marks of a finite range; of a range with an infinite end the call either goes
\* on or panics
MeshOutcomes(lo, hi) ==
    IF IsFinite(lo) /\ IsFinite(hi) THEN {"Ok"} ELSE {"Ok", "panic"}

----------------------------------------------------------------------------
(* TriPlot                                                                 *)

\* t.as_triangle().iter().map(|&i| (x[i.fix()], y[i.fix()])).collect()
TriVertices(t, xs, ys) == [k \in 1..3 |-> <<At(xs, t[k]), At(ys, t[k])>>]

\* an outline left open: the three vertices only
CycleTake4_open(v) == [k \in 1..3 |-> v[k]]

\* v.iter().cycle().take(4)
CycleTake4(v) == [k \in 1..4 |-> v[((k - 1) % Len(v)) + 1]]

LineSeries(pts, style) == [kind |-> "LineSeries", pts |-> pts, style |-> style]

Polygon(pts, style) == [kind |-> "Polygon", pts |-> pts, style |-> style]

Rectangle(pts, style) == [kind |-> "Rectangle", pts |-> pts, style |-> style]

\* TriPlot::mesh: one LineSeries per triangle
MeshSeries(tr, xs, ys, c) ==
    [k \in 1..Len(tr) |-> LineSeries(CycleTake4(TriVertices(tr[k], xs, ys)), RGBColor(c))]

\* a fold that divides by the wrong count
CellValue_half(t, zs) ==
    FAdd(FAdd(FAdd(F(0), FDiv(At(zs, t[1]), F(2))), FDiv(At(zs, t[2]), F(2))),
         FDiv(At(zs, t[3]), F(2)))

\* t.as_triangle().iter().fold(0., |a, &i| a + z[i.fix()] / 3.)
CellValue(t, zs) ==
    FAdd(FAdd(FAdd(F(0), FDiv(At(zs, t[1]), F(3))), FDiv(At(zs, t[2]), F(3))),
         FDiv(At(zs, t[3]), F(3)))

Cells(tr, zs) == [k \in 1..Len(tr) |-> Norm(CellValue(tr[k], zs))]

\* (p - cells_min) / (cells_max - cells_min)
Unit(p, lo, hi) == FDiv(FSub(p, lo), FSub(hi, lo))

UnitCells(cs, lo, hi) == [k \in 1..Len(cs) |-> Norm(Unit(cs[k], lo, hi))]

\* the fill of a triangle whose normalised value is p
MapStyle(p) == IF IsNaN(p) THEN BLACK ELSE eval_continuous("CIVIDIS", Norm(p))

\* a zip that pairs the triangles with the values in reverse order
MapPolygons_reversed(tr, xs, ys, us) ==
    [k \in 1..(IF Len(tr) < Len(us) THEN Len(tr) ELSE Len(us)) |->
        Polygon(TriVertices(tr[k], xs, ys), MapStyle(us[Len(us) + 1 - k]))]

\* triangles().map(vertices).zip(unit_cells.iter()): one Polygon per pair
MapPolygons(tr, xs, ys, us) ==
    [k \in 1..(IF Len(tr) < Len(us) THEN Len(tr) ELSE Len(us)) |->
        Polygon(TriVertices(tr[k], xs, ys), MapStyle(us[k]))]

NoColorbar == [drawn |-> FALSE, lo |-> NaN, hi |-> NaN, n |-> 0, x0 |-> NaN, dx |-> NaN,
               cmap |-> "none"]

Init ==
    /\ op = "none"
    /\ x = <<>> /\ y = <<>> /\ z = <<>> /\ tri = <<>>
    /\ color = <<0, 0, 0>>
    /\ config = ConfigDefault
    /\ data = [map |-> <<>>, rows |-> 0, cols |-> 0]
    /\ cells = <<>> /\ cells_min = NaN /\ cells_max = NaN /\ unit_cells = <<>>
    /\ chart = <<>>
    /\ colorbar = NoColorbar
    /\ result = "none"
    /\ presented = FALSE
    /\ axes = NoAxes
    /\ items = <<>>
    /\ pconfig = PlotConfigDefault
    /\ overflow = FALSE
    /\ builder = ConfigDefault
    /\ last = NeverSet
    /\ pc = "idle"

\* the state a call leaves of what it does not touch
NoData == [map |-> <<>>, rows |-> 0, cols |-> 0]

\* trimesh(x, y, color, chart)
trimesh ==
    /\ pc = "idle"
    /\ \E pts \in PointSets : \E tr \in TriangulationOf[pts] : \E c \in Colors :
        /\ op' = "trimesh"
        /\ x' = Xs(pts) /\ y' = Ys(pts) /\ z' = <<>>
        /\ tri' = tr
        /\ color' = c
        /\ chart' = MeshSeries(tr, Xs(pts), Ys(pts), c)
        /\ config' = ConfigDefault
        /\ data' = NoData
        /\ cells' = <<>> /\ cells_min' = NaN /\ cells_max' = NaN /\ unit_cells' = <<>>
        /\ colorbar' = NoColorbar
        /\ result' = "Ok"
        /\ presented' = FALSE
        /\ overflow' = FALSE
        /\ UNCHANGED <<builder, last>>
        /\ axes' = NoAxes
        /\ items' = <<>>
        /\ pconfig' = PlotConfigDefault
        /\ pc' = "done"

\* TriPlot::map on the triangulation tr of the points (xs, ys) with values zs
MapCall(tr, xs, ys, zs) ==
    LET cs == Cells(tr, zs)
        hi == FoldMax(cs)
        lo == FoldMin(cs)
        us == UnitCells(cs, lo, hi)
    IN  /\ cells' = cs
        /\ cells_max' = hi
        /\ cells_min' = lo
        /\ unit_cells' = us
        /\ chart' = MapPolygons(tr, xs, ys, us)

\* trimap(x, y, z, chart)
trimap ==
    /\ pc = "idle"
    /\ \E pts \in PointSets : \E tr \in TriangulationOf[pts] :
       \E zs \in [1..Len(pts) -> Vals] :
        /\ op' = "trimap"
        /\ x' = Xs(pts) /\ y' = Ys(pts) /\ z' = zs
        /\ tri' = tr
        /\ MapCall(tr, Xs(pts), Ys(pts), zs)
        /\ color' = <<0, 0, 0>>
        /\ config' = ConfigDefault
        /\ data' = NoData
        /\ colorbar' = NoColorbar
        /\ result' = "Ok"
        /\ presented' = FALSE
        /\ overflow' = FALSE
        /\ UNCHANGED <<builder, last>>
        /\ axes' = NoAxes
        /\ items' = <<>>
        /\ pconfig' = PlotConfigDefault
        /\ pc' = "done"

\* the number of swatches of the tri::heatmap colorbar
TriSwatches == 800

\* a colorbar whose n swatches divide the range in n
Colorbar_nsteps(lo, hi, n, cmap) ==
    [drawn |-> TRUE, lo |-> lo, hi |-> hi, n |-> n, x0 |-> lo,
     dx |-> Norm(FDiv(FSub(hi, lo), F(n))), cmap |-> cmap]

\* the colorbar: its axis lo..hi and the series (0..n).map(swatch)
Colorbar(lo, hi, n, cmap) ==
    [drawn |-> TRUE, lo |-> lo, hi |-> hi, n |-> n, x0 |-> lo,
     dx |-> Norm(FDiv(FSub(hi, lo), F(n - 1))), cmap |-> cmap]

\* a closure that colours swatch k at k / n
Swatch_offbyone(cb, k) ==
    LET xk == FAdd(cb.x0, FMul(F(k), cb.dx))
    IN  Rectangle(<< <<xk, F(0)>>, <<FAdd(xk, cb.dx), F(1)>> >>,
                  eval_rational(cb.cmap, k, cb.n + 1))

\* the closure of the colorbar series: swatch k
Swatch(cb, k) ==
    LET xk == FAdd(cb.x0, FMul(F(k), cb.dx))
    IN  Rectangle(<< <<xk, F(0)>>, <<FAdd(xk, cb.dx), F(1)>> >>, eval_rational(cb.cmap, k, cb.n))

\* the range handed to tri::heatmap for both axes
HeatmapRange == <<[n |-> 0, d |-> 1], [n |-> 4, d |-> 1]>>

\* tri::heatmap, up to and including its call of trimap
tri_heatmap ==
    /\ pc = "idle"
    /\ \E in \in HeatmapInputs : \E tr \in TriangulationOf[in[1]] :
       \E mm \in {None, Some(F(0), F(1))} :
        /\ op' = "tri_heatmap"
        /\ x' = Xs(in[1]) /\ y' = Ys(in[1]) /\ z' = in[2]
        /\ tri' = tr
        /\ config' = WithMinMax(ConfigDefault, mm)
        /\ axes' = Axes(HeatmapRange[1], HeatmapRange[2], HeatmapRange[1], HeatmapRange[2],
                        NoString, NoString)
        /\ MapCall(tr, Xs(in[1]), Ys(in[1]), in[2])
        /\ color' = <<0, 0, 0>>
        /\ data' = NoData
        /\ colorbar' = NoColorbar
        /\ result' = "none"
        /\ presented' = FALSE
        /\ overflow' = FALSE
        /\ UNCHANGED <<builder, last>>
        /\ items' = <<>>
        /\ pconfig' = PlotConfigDefault
        /\ pc' = "colorbar"

\* tri::heatmap, from // COLORBAR to the swatch series
tri_heatmap_colorbar ==
    /\ op = "tri_heatmap"
    /\ pc = "colorbar"
    /\ \E outcome \in MeshOutcomes(FoldMin(z), FoldMax(z)) :
        IF outcome = "Ok"
        THEN /\ colorbar' = Colorbar(FoldMin(z), FoldMax(z), TriSwatches, "CIVIDIS")
             /\ result' = "none"
             /\ pc' = "present"
        ELSE /\ colorbar' = NoColorbar
             /\ result' = "panic"
             /\ pc' = "done"
    /\ UNCHANGED <<op, x, y, z, tri, color, config, data, cells, cells_min, cells_max,
                   unit_cells, chart, presented, axes, items, pconfig,
                   overflow, builder, last>>

\* tri::heatmap, root_area.present()?: the bitmap is written to the file, or the
\* write fails and the error is returned
tri_heatmap_present ==
    /\ op = "tri_heatmap"
    /\ pc = "present"
    /\ \E written \in BOOLEAN :
        /\ presented' = written
        /\ result' = IF written THEN "Ok" ELSE "Err"
    /\ pc' = "done"
    /\ UNCHANGED <<op, x, y, z, tri, color, config, data, cells, cells_min, cells_max,
                   unit_cells, chart, colorbar, axes, items, pconfig,
                   overflow, builder, last>>

----------------------------------------------------------------------------
(* Mesh: the wireframe of the points of a flat iterator x0, y0, x1, y1, ... *)

\* the flat sequence of the coordinates of pts
RECURSIVE Flatten(_)
Flatten(pts) ==
    IF pts = <<>> THEN <<>> ELSE <<pts[1][1], pts[1][2]>> \o Flatten(Tail(pts))

\* chunks(2).map(|xy| (xy[0], xy[1])) of a sequence of even length
Chunks2(flat) == [k \in 1..(Len(flat) \div 2) |-> <<flat[2 * k - 1], flat[2 * k]>>]

\* the coordinates as f64
AsF(s) == [k \in 1..Len(s) |-> F(s[k])]

\* [x_min, x_max, y_min, y_max]: the folds of f64::min and f64::max over the points
MeshLims(xs, ys) ==
    <<FoldMin(AsF(xs)), FoldMax(AsF(xs)), FoldMin(AsF(ys)), FoldMax(AsF(ys))>>

\* the outcomes of drawing the mesh of two axes
ChartOutcomes(lims) == MeshOutcomes(lims[1], lims[2]) \cup MeshOutcomes(lims[3], lims[4])

\* the sequences of points handed to Mesh
MeshInputs == PointSets \cup {<<>>}

\* iter.collect::<Mesh>(): Mesh::from_iter
Mesh_from_iter ==
    /\ pc = "idle"
    /\ \E pts \in MeshInputs : \E odd \in BOOLEAN :
        LET flat == IF odd THEN Append(Flatten(pts), 0) ELSE Flatten(pts)
            xy   == Chunks2(flat)
            xs   == Xs(xy)
            ys   == Ys(xy)
            lims == MeshLims(xs, ys)
        IN  /\ op' = "Mesh_from_iter"
            /\ color' = <<0, 0, 0>>
            /\ IF Len(flat) % 2 = 1
               THEN \* xy[1] of the last chunk: index out of bounds
                    /\ x' = <<>> /\ y' = <<>> /\ tri' = <<>>
                    /\ axes' = NoAxes
                    /\ chart' = <<>>
                    /\ result' = "panic"
               ELSE /\ x' = xs /\ y' = ys
                    /\ \E outcome \in ChartOutcomes(lims) : \E tr \in Triangulations(xy) :
                        IF outcome = "Ok"
                        THEN /\ axes' = Axes(lims[1], lims[2], lims[3], lims[4],
                                             NoString, NoString)
                             /\ tri' = tr
                             /\ chart' = MeshSeries(tr, xs, ys, <<0, 0, 0>>)
                             /\ result' = "Ok"
                        ELSE /\ axes' = Axes(lims[1], lims[2], lims[3], lims[4],
                                             NoString, NoString)
                             /\ tri' = <<>>
                             /\ chart' = <<>>
                             /\ result' = "panic"
            /\ z' = <<>>
            /\ config' = ConfigDefault
            /\ data' = NoData
            /\ cells' = <<>> /\ cells_min' = NaN /\ cells_max' = NaN /\ unit_cells' = <<>>
            /\ colorbar' = NoColorbar
            /\ presented' = FALSE
            /\ overflow' = FALSE
            /\ UNCHANGED <<builder, last>>
            /\ items' = <<>>
            /\ pconfig' = PlotConfigDefault
            /\ pc' = "done"

----------------------------------------------------------------------------
(* Plot, LogLin and Scatter: the series of the items (x, vec![y1, y2, ...]) *)

\* the x values explored
XVals == {[n |-> 1, d |-> 1], [n |-> 10, d |-> 1]}

\* eleven y values, one more than the palette has colours
Eleven == [k \in 1..11 |-> F(k - 1)]

\* the vectors of y values explored
YVecs == {<<>>, <<F(0)>>, <<F(1)>>, <<F(0), F(1)>>, Eleven}

\* the items (x, ys) handed to the plots
ItemLists == UNION {[1..n -> XVals \X YVecs] : n \in 0..MaxItems}

\* the y values of all items, item after item
RECURSIVE FlatYs(_)
FlatYs(xy) == IF xy = <<>> THEN <<>> ELSE xy[1][2] \o FlatYs(Tail(xy))

\* Utils::xy_max: (maximum of the x values, maximum of all y values)
xy_max(xy) == <<FoldMax([k \in 1..Len(xy) |-> xy[k][1]]), FoldMax(FlatYs(xy))>>

\* Utils::xy_min: (minimum of the x values, minimum of all y values)
xy_min(xy) == <<FoldMin([k \in 1..Len(xy) |-> xy[k][1]]), FoldMin(FlatYs(xy))>>

\* Scatter::from: fold((NEG_INFINITY, NEG_INFINITY), |(fx, fy), (x, y)| (fx.max(x), fy.max(fold of y)))
RECURSIVE ScatterMaxFrom(_, _, _)
ScatterMaxFrom(acc, xy, k) ==
    IF k > Len(xy) THEN acc
    ELSE ScatterMaxFrom(<<FMax(acc[1], xy[k][1]), FMax(acc[2], FoldMax(xy[k][2]))>>, xy, k + 1)

\* a maximum that looks at the first y value of an item only
ScatterMax_firsty(xy) ==
    ScatterMaxFrom(<<NEG_INFINITY, NEG_INFINITY>>,
                   [k \in 1..Len(xy) |->
                       <<xy[k][1], IF xy[k][2] = <<>> THEN <<>> ELSE <<xy[k][2][1]>>>>], 1)

ScatterMax(xy) == ScatterMaxFrom(<<NEG_INFINITY, NEG_INFINITY>>, xy, 1)

\* Scatter::from: fold((INFINITY, INFINITY), |(fx, fy), (x, y)| (fx.min(x), fy.min(fold of y)))
RECURSIVE ScatterMinFrom(_, _, _)
ScatterMinFrom(acc, xy, k) ==
    IF k > Len(xy) THEN acc
    ELSE ScatterMinFrom(<<FMin(acc[1], xy[k][1]), FMin(acc[2], FoldMin(xy[k][2]))>>, xy, k + 1)

ScatterMin(xy) == ScatterMinFrom(<<INFINITY, INFINITY>>, xy, 1)

\* xy.into_iter().flat_map(|(x, y)| y.into_iter().map(|y| (x, y))).collect()
RECURSIVE FlatMap(_)
FlatMap(xy) ==
    IF xy = <<>> THEN <<>>
    ELSE [j \in 1..Len(xy[1][2]) |-> <<xy[1][1], xy[1][2][j]>>] \o FlatMap(Tail(xy))

\* data.iter().skip(k).step_by(n)
SkipStepBy(d, k, n) ==
    [i \in 1..(IF Len(d) > k THEN (Len(d) - k - 1) \div n + 1 ELSE 0) |-> d[k + 1 + (i - 1) * n]]

\* the k-th colour (from 0) that colorous::TABLEAU10.iter().cycle() yields
Tableau10(k) == [cmap |-> "TABLEAU10", t |-> F(k % 10), rgb |-> <<>>]

\* Circle::new(point, 3, style) for every point of a series
Circles(pts, style) == [kind |-> "Circles", pts |-> pts, style |-> style]

\* for k in 0..n_y: one LineSeries, or one series of circles, per y value
PlotSeries(d, n_y, kind) ==
    [k \in 1..n_y |->
        IF kind = "LineSeries"
        THEN LineSeries(SkipStepBy(d, k - 1, n_y), Tableau10(k - 1))
        ELSE Circles(SkipStepBy(d, k - 1, n_y), Tableau10(k - 1))]

\* from the chart on: the axes lims with their labels, the mesh, n_y = xy[0].1.len()
\* and the series
DrawItems(xy, lims, x_desc, y_desc, kind) ==
    /\ axes' = Axes(lims[1], lims[2], lims[3], lims[4], x_desc, y_desc)
    /\ \E outcome \in ChartOutcomes(lims) :
        IF outcome = "panic" \/ xy = <<>>
        THEN /\ chart' = <<>>
             /\ result' = "panic"
        ELSE /\ chart' = PlotSeries(FlatMap(xy), Len(xy[1][2]), kind)
             /\ result' = "Ok"

\* what the plots of items leave of the state of the other calls
NoMap ==
    /\ x' = <<>> /\ y' = <<>> /\ z' = <<>> /\ tri' = <<>>
    /\ color' = <<0, 0, 0>>
    /\ config' = ConfigDefault
    /\ data' = NoData
    /\ cells' = <<>> /\ cells_min' = NaN /\ cells_max' = NaN /\ unit_cells' = <<>>
    /\ colorbar' = NoColorbar
    /\ presented' = FALSE
    /\ overflow' = FALSE
    /\ UNCHANGED <<builder, last>>
    /\ pc' = "done"

\* iter.collect::<Plot>(): Plot::from_iter
Plot_from_iter ==
    /\ pc = "idle"
    /\ \E xy \in ItemLists :
        /\ op' = "Plot_from_iter"
        /\ items' = xy
        /\ pconfig' = PlotConfigDefault
        /\ DrawItems(xy, <<xy_min(xy)[1], xy_max(xy)[1], xy_min(xy)[2], xy_max(xy)[2]>>,
                     NoString, NoString, "LineSeries")
        /\ NoMap

\* Option<Config>
NoConfig == [some |-> FALSE, cfg |-> PlotConfigDefault]

SomeConfig(c) == [some |-> TRUE, cfg |-> c]

\* config.unwrap_or_default()
UnwrapOrDefault(oc) == IF oc.some THEN oc.cfg ELSE PlotConfigDefault

\* the body of inner() in Plot::from: the two assertions, then the chart
PlotInner(xy, cfg) ==
    LET lims == <<xy_min(xy)[1], xy_max(xy)[1], xy_min(xy)[2], xy_max(xy)[2]>>
    IN  IF FLt(lims[1], lims[2]) /\ FLt(lims[3], lims[4])
        THEN DrawItems(xy, lims, cfg.xaxis.label, cfg.yaxis.label, "LineSeries")
        ELSE \* assert!(x_max > x_min) or assert!(y_max > y_min)
             /\ axes' = NoAxes
             /\ chart' = <<>>
             /\ result' = "panic"

\* the configurations explored: with and without a file name and a label of
\* each axis
LineConfigs ==
    {NoConfig} \cup
    {SomeConfig([filename |-> f,
                 xaxis |-> [label |-> xl, range |-> None],
                 yaxis |-> [label |-> yl, range |-> None]]) :
        f \in {NoString, SomeString("out.svg")},
        xl \in {NoString, SomeString("f")},
        yl \in {NoString, SomeString("y")}}

\* Plot::from((iter, config))
Plot_from ==
    /\ pc = "idle"
    /\ \E xy \in ItemLists : \E oc \in LineConfigs :
        /\ op' = "Plot_from"
        /\ items' = xy
        /\ pconfig' = UnwrapOrDefault(oc)
        /\ PlotInner(xy, UnwrapOrDefault(oc))
        /\ NoMap

\* f64::log10 on the values explored
Log10(v) ==
    IF IsNaN(v) THEN NaN
    ELSE IF FEq(v, F(1)) THEN F(0)
    ELSE IF FEq(v, F(10)) THEN F(1)
    ELSE IF FEq(v, F(100)) THEN F(2)
    ELSE IF FEq(v, F(0)) THEN NEG_INFINITY
    ELSE NaN

\* format!("log10( {} )", label)
Log10Label(label) == "log10( " \o label \o " )"

\* the Config LogLin::from hands to Plot: match (&config.filename, &config.xaxis.label)
LogLinConfig(oc) ==
    IF ~oc.some THEN SetFilename(PlotConfigDefault, "complot-linlog.svg")
    ELSE IF oc.cfg.filename = NoString /\ oc.cfg.xaxis.label = NoString
         THEN SetFilename(oc.cfg, "complot-linlog.svg")
    ELSE IF oc.cfg.filename = NoString
         THEN SetYaxis(SetFilename(oc.cfg, "complot-linlog.svg"),
                       AxisLabel(AxisNew, Log10Label(oc.cfg.xaxis.label[1])))
    ELSE IF oc.cfg.xaxis.label # NoString
         THEN SetYaxis(oc.cfg, AxisLabel(AxisNew, Log10Label(oc.cfg.xaxis.label[1])))
    ELSE oc.cfg

\* LogLin::from((iter, config)): Plot::from of the items (log10(x), y)
LogLin_from ==
    /\ pc = "idle"
    /\ \E xy \in ItemLists : \E oc \in LineConfigs :
        /\ op' = "LogLin_from"
        /\ items' = xy
        /\ pconfig' = UnwrapOrDefault(oc)
        /\ PlotInner([k \in 1..Len(xy) |-> <<Log10(xy[k][1]), xy[k][2]>>], LogLinConfig(oc))
        /\ NoMap

\* the configurations explored: with and without a range of each axis
ScatterConfigs ==
    {NoConfig} \cup
    {SomeConfig([filename |-> NoString,
                 xaxis |-> [label |-> NoString, range |-> xr],
                 yaxis |-> [label |-> NoString, range |-> yr]]) :
        xr \in {None, Some(F(0), F(20))},
        yr \in {None, Some(F(0), F(5))}}

\* Scatter::from((iter, config))
Scatter_from ==
    /\ pc = "idle"
    /\ \E xy \in ItemLists : \E oc \in ScatterConfigs :
        LET cfg    == UnwrapOrDefault(oc)
            xrange == IF cfg.xaxis.range.some
                      THEN <<cfg.xaxis.range.lo, cfg.xaxis.range.hi>>
                      ELSE <<ScatterMin(xy)[1], ScatterMax(xy)[1]>>
            yrange == IF cfg.yaxis.range.some
                      THEN <<cfg.yaxis.range.lo, cfg.yaxis.range.hi>>
                      ELSE <<ScatterMin(xy)[2], ScatterMax(xy)[2]>>
        IN  /\ op' = "Scatter_from"
            /\ items' = xy
            /\ pconfig' = cfg
            /\ DrawItems(xy, <<xrange[1], xrange[2], yrange[1], yrange[2]>>,
                         cfg.xaxis.label, cfg.yaxis.label, "Circles")
            /\ NoMap

\* T::as_(): the element as f64
AsF64(v) == v

\* a range that ignores the override
GridRange_dataonly(map, cfg) == <<AsF64(FoldMin(map)), AsF64(FoldMax(map))>>

\* the pair (cells_min, cells_max) of the grid heatmap
GridRange(map, cfg) ==
    IF cfg.cmap_minmax.some
    THEN <<cfg.cmap_minmax.lo, cfg.cmap_minmax.hi>>
    ELSE <<AsF64(FoldMin(map)), AsF64(FoldMax(map))>>

\* the rectangle of element k (from 0) whose value is v
GridCell(k, v, res, osf, cmap, lo, hi) ==
    LET j == k \div res
        i == k % res
    IN  Rectangle(<< <<osf * i, osf * j>>, <<osf * (i + 1), osf * (j + 1)>> >>,
                  eval_continuous(cmap, Norm(Unit(AsF64(v), lo, hi))))

\* (size - 1) as i32: size - 1 wraps to usize::MAX when size is 0, whose low
\* 32 bits are the i32 -1
SizeMinusOneAsI32(size) == IF size = 0 THEN -1 ELSE size - 1

\* the builds: with overflow checks (debug) the subtraction of 1 from 0 panics,
\* without them (release) it wraps
Builds(size) == IF size = 0 THEN {"debug", "release"} ELSE {"release"}

\* the colorbar of the grid heatmap: (0..size) swatches of width
\* dx = (cells_max - cells_min) / (size - 1) as f64.  When size is 0 there is no
\* swatch and the divisor is usize::MAX as f64 = 2^64, beyond the integers of the
\* model: dx of a finite range is then taken as 0
GridColorbar(lo, hi, size, cmap) ==
    IF size = 0
    THEN [drawn |-> TRUE, lo |-> lo, hi |-> hi, n |-> 0, x0 |-> lo,
          dx |-> IF IsFinite(Norm(FSub(hi, lo))) THEN F(0) ELSE Norm(FSub(hi, lo)),
          cmap |-> cmap]
    ELSE Colorbar(lo, hi, size, cmap)

\* the call panics before it has built or drawn anything
GridAbort ==
    /\ axes' = NoAxes
    /\ cells_min' = NaN /\ cells_max' = NaN
    /\ unit_cells' = <<>>
    /\ chart' = <<>>
    /\ colorbar' = NoColorbar
    /\ result' = "panic"

\* the grid heatmap: lib.rs heatmap() and heatmap.rs inner() share this body
GridCall(map, rows, cols, cfg) ==
    LET res   == rows
        size  == res * cfg.osf
        range == GridRange(map, cfg)
    IN  /\ data' = [map |-> map, rows |-> rows, cols |-> cols]
        /\ config' = cfg
        /\ IF rows # cols
           THEN \* assert_eq!(rows, cols, "rectangular heatmap unimplemented")
                /\ GridAbort
                /\ overflow' = FALSE
           ELSE /\ overflow' = (size = 0)
                /\ \E build \in Builds(size) :
                    IF size = 0 /\ build = "debug"
                    THEN \* size - 1: attempt to subtract with overflow
                         GridAbort
                    ELSE /\ axes' = Axes(F(0), F(SizeMinusOneAsI32(size)),
                                         F(0), F(SizeMinusOneAsI32(size)), NoString, NoString)
                         /\ cells_min' = range[1]
                         /\ cells_max' = range[2]
                         /\ IF res = 0 /\ Len(map) > 0
                            THEN \* k / res: attempt to divide by zero
                                 /\ unit_cells' = <<>>
                                 /\ chart' = <<>>
                                 /\ colorbar' = NoColorbar
                                 /\ result' = "panic"
                            ELSE /\ unit_cells' = [k \in 1..Len(map) |->
                                        Norm(Unit(AsF64(map[k]), range[1], range[2]))]
                                 /\ chart' = [k \in 1..Len(map) |->
                                        GridCell(k - 1, map[k], res, cfg.osf, cfg.cmap,
                                                 range[1], range[2])]
                                 /\ \E outcome \in MeshOutcomes(range[1], range[2]) :
                                     /\ colorbar' = IF outcome = "Ok"
                                                    THEN GridColorbar(range[1], range[2], size,
                                                                      cfg.cmap)
                                                    ELSE NoColorbar
                                     /\ result' = outcome
        /\ cells' = <<>>
        /\ x' = <<>> /\ y' = <<>> /\ z' = <<>> /\ tri' = <<>>
        /\ color' = <<0, 0, 0>>
        /\ presented' = FALSE
        /\ UNCHANGED <<builder, last>>
        /\ items' = <<>>
        /\ pconfig' = PlotConfigDefault
        /\ pc' = "done"

\* the slices explored: every slice of at most MaxData values, and the four
\* values 0, 1, 1, 2 that fill a grid of two rows
Maps == UNION {[1..n -> Vals] : n \in 0..MaxData} \cup {<<F(0), F(1), F(1), F(2)>>}

\* the shapes (rows, cols) explored: the squares, and one that is not square
Shapes == {<<r, r>> : r \in 0..MaxRes} \cup {<<1, 2>>}

GridConfigs ==
    {WithMinMax(SetOsf(ConfigDefault, osf), mm) : osf \in 0..MaxOsf, mm \in MinMaxOptions}

\* heatmap(data, config) of lib.rs
heatmap ==
    /\ pc = "idle"
    /\ \E map \in Maps : \E shape \in Shapes : \E cfg \in GridConfigs :
        /\ op' = "heatmap"
        /\ GridCall(map, shape[1], shape[2], cfg)

\* Heatmap::from((data, config)) of heatmap.rs
Heatmap_from ==
    /\ pc = "idle"
    /\ \E map \in Maps : \E shape \in Shapes : \E cfg \in GridConfigs :
        /\ op' = "Heatmap_from"
        /\ GridCall(map, shape[1], shape[2], cfg)

\* the call returns to its caller: the chart and everything the call owned is dropped
return ==
    /\ pc = "done"
    /\ op' = "none"
    /\ x' = <<>> /\ y' = <<>> /\ z' = <<>> /\ tri' = <<>>
    /\ color' = <<0, 0, 0>>
    /\ config' = ConfigDefault
    /\ data' = NoData
    /\ cells' = <<>> /\ cells_min' = NaN /\ cells_max' = NaN /\ unit_cells' = <<>>
    /\ chart' = <<>>
    /\ colorbar' = NoColorbar
    /\ result' = "none"
    /\ presented' = FALSE
    /\ overflow' = FALSE
    /\ UNCHANGED <<builder, last>>
    /\ axes' = NoAxes
    /\ items' = <<>>
    /\ pconfig' = PlotConfigDefault
    /\ pc' = "idle"

\* the triangulated plots and the grid heatmaps
Next ==
    \/ trimesh
    \/ Mesh_from_iter
    \/ trimap
    \/ tri_heatmap
    \/ tri_heatmap_colorbar
    \/ tri_heatmap_present
    \/ heatmap
    \/ Heatmap_from
    \/ return

Spec == Init /\ [][Next]_vars

\* the plots that build their own axes from the points they are handed
NextItems ==
    \/ Mesh_from_iter
    \/ Plot_from_iter
    \/ Plot_from
    \/ LogLin_from
    \/ Scatter_from
    \/ return

SpecItems == Init /\ [][NextItems]_vars

-----------------------------------------------------------------------------
(* Building a Config: Config::new() followed by setter calls, each of which *)
(* consumes the Config and returns the next one.                            *)

\* the arguments explored for each setter
Filenames == {"a.png", "b.png"}

Titles == {"T", "U"}

XAxes == {XAxisNew, AxisLabel(XAxisNew, "x")}

MinMaxPairs == MinMaxOptions \ {None}

\* Config::new()
Config_new ==
    /\ pc = "idle"
    /\ builder' = ConfigDefault
    /\ last' = NeverSet
    /\ UNCHANGED callvars

\* Config::filename(self, filename)
Config_filename ==
    /\ pc = "idle"
    /\ \E str \in Filenames :
        /\ builder' = SetFilename(builder, str)
        /\ last' = [last EXCEPT !.filename = <<str>>]
    /\ UNCHANGED callvars

\* Config::title(self, title)
Config_title ==
    /\ pc = "idle"
    /\ \E str \in Titles :
        /\ builder' = SetTitle(builder, str)
        /\ last' = [last EXCEPT !.title = <<str>>]
    /\ UNCHANGED callvars

\* Config::over_sampling_factor(self, osf)
Config_over_sampling_factor ==
    /\ pc = "idle"
    /\ \E osf \in 0..MaxOsf :
        /\ builder' = SetOsf(builder, osf)
        /\ last' = [last EXCEPT !.osf = <<osf>>]
    /\ UNCHANGED callvars

\* Config::cmap_minmax(self, cmap_minmax)
Config_cmap_minmax ==
    /\ pc = "idle"
    /\ \E mm \in MinMaxPairs :
        /\ builder' = SetCmapMinmax(builder, mm.lo, mm.hi)
        /\ last' = [last EXCEPT !.cmap_minmax = << <<mm.lo, mm.hi>> >>]
    /\ UNCHANGED callvars

\* Config::xaxis(self, xaxis)
Config_xaxis ==
    /\ pc = "idle"
    /\ \E a \in XAxes :
        /\ builder' = SetXaxis(builder, a)
        /\ last' = [last EXCEPT !.xaxis = <<a>>]
    /\ UNCHANGED callvars

\* the construction of a Config
NextConfig ==
    \/ Config_new
    \/ Config_filename
    \/ Config_title
    \/ Config_over_sampling_factor
    \/ Config_cmap_minmax
    \/ Config_xaxis

SpecConfig == Init /\ [][NextConfig]_vars

----------------------------------------------------------------------------
(* Properties                                                              *)

\* the same f64: both NaN, or equal
SameF(a, b) == (IsNaN(a) /\ IsNaN(b)) \/ FEq(a, b)

MapOps == {"trimap", "tri_heatmap"}

GridOps == {"heatmap", "Heatmap_from"}

\* the grid is square and has at least one pixel: the body of the grid heatmap
\* runs without an assertion or an integer computation failing
WellFormedGrid == data.rows = data.cols /\ data.rows * config.osf >= 1

\* the positions of the vertices of the triangulation built from (x, y)
Vertices == Insert(Zip(x, y))

\* the three corners of triangle k, from the triangulation's own vertices
Corners(k) == [j \in 1..3 |-> At(Vertices, tri[k][j])]

\* no point is given twice
DistinctPoints == Len(Vertices) = Len(x)

\* the indices of the cells whose value is not NaN
NonNaNCells == {k \in 1..Len(cells) : ~IsNaN(cells[k])}

Half == [n |-> 1, d |-> 2]

\* C1: in the triangulated map the cell value of every triangle is the
\* arithmetic mean (z[i0] + z[i1] + z[i2]) / 3 of the values of its three vertices
C1_CellIsMean ==
    op \in MapOps =>
        /\ Len(cells) = Len(tri)
        /\ \A k \in 1..Len(tri) :
               SameF(cells[k],
                     FDiv(FAdd(FAdd(At(z, tri[k][1]), At(z, tri[k][2])), At(z, tri[k][3])), F(3)))

\* the unit square with z = 0, 1, 1, 2 cut along the diagonal 1-2: cells 2/3 and 4/3
C1_Witness ==
    /\ op = "trimap"
    /\ z = <<F(0), F(1), F(1), F(2)>>
    /\ tri = << <<0, 1, 2>>, <<1, 3, 2>> >>
    /\ cells = << [n |-> 2, d |-> 3], [n |-> 4, d |-> 3] >>

\* C2: when min = max over the cell values (constant field) every finite cell
\* value is normalised to 0.5 and no normalised value is NaN or infinite; the
\* same for the grid heatmap when all data values are equal
C2_ConstantFieldIsHalf ==
    /\ (op \in MapOps /\ FEq(cells_min, cells_max)) =>
           \A k \in 1..Len(cells) : IsFinite(cells[k]) => FEq(unit_cells[k], Half)
    /\ (/\ op \in GridOps
        /\ ~config.cmap_minmax.some
        /\ Len(data.map) > 0
        /\ \A k \in 1..Len(data.map) : IsFinite(data.map[k]) /\ data.map[k] = data.map[1]) =>
           \A k \in 1..Len(unit_cells) : FEq(unit_cells[k], Half)

\* triangle k has a vertex whose value is NaN
HasNaNVertex(k) == \E j \in 1..3 : IsNaN(At(z, tri[k][j]))

\* C3: a triangle with a NaN vertex value has a NaN cell value and is drawn in
\* black; the range of the map is the min and max of the non-NaN cell values,
\* and every other triangle is normalised over that range
C3_NaNCellExcludedAndBlack ==
    op \in MapOps =>
        /\ \A k \in 1..Len(tri) :
               HasNaNVertex(k) => IsNaN(cells[k]) /\ chart[k].style = BLACK
        /\ NonNaNCells # {} =>
               /\ \E k \in NonNaNCells : FEq(cells_min, cells[k])
               /\ \A k \in NonNaNCells : FLe(cells_min, cells[k])
               /\ \E k \in NonNaNCells : FEq(cells_max, cells[k])
               /\ \A k \in NonNaNCells : FLe(cells[k], cells_max)
        /\ \A k \in NonNaNCells :
               SameF(unit_cells[k], Unit(cells[k], cells_min, cells_max))

\* the strip with a NaN at vertex 0: one black triangle, the two others
\* normalised to 0 and 1 over their own range
C3_Witness ==
    /\ op = "trimap"
    /\ Len(tri) = 3
    /\ \E k \in 1..3 :
           /\ HasNaNVertex(k)
           /\ chart[k].style = BLACK
           /\ \E i, j \in (1..3) \ {k} :
                  /\ FEq(unit_cells[i], F(0))
                  /\ FEq(unit_cells[j], F(1))
                  /\ FLt(cells_min, cells_max)

\* C4: in tri::heatmap the colorbar axis spans the (min, max) of the cell
\* values that map() normalises with (stated where both ranges are defined:
\* finite values, at least one triangle)
C4_ColorbarSpansCellRange ==
    (/\ op = "tri_heatmap"
     /\ pc = "done"
     /\ result = "Ok"
     /\ Len(tri) > 0
     /\ \A k \in 1..Len(z) : IsFinite(z[k])) =>
        /\ FEq(colorbar.lo, cells_min)
        /\ FEq(colorbar.hi, cells_max)

\* the number of swatches the call asks for
SwatchCount == IF op = "tri_heatmap" THEN TriSwatches ELSE data.rows * config.osf

\* the step (max - min) / (n - 1) of the colorbar, from its axis
Step == FDiv(FSub(colorbar.hi, colorbar.lo), F(SwatchCount - 1))

\* the left and right edge of swatch k
Left(k) == Swatch(colorbar, k).pts[1][1]

Right(k) == Swatch(colorbar, k).pts[2][1]

\* C5: the colorbar of a call that returned Ok is made of exactly n rectangles (800 in tri::heatmap,
\* rows * osf in the grid heatmap); swatch k covers
\* [min + k dx, min + (k + 1) dx] x [0, 1] with dx = (max - min) / (n - 1), the
\* right edge of a swatch is the left edge of the next, and swatch k has the
\* colour of the gradient at k / (n - 1)  (the positions k / (n - 1) and the
\* step are defined for n >= 2)
C5_ColorbarSwatches ==
    (colorbar.drawn /\ result = "Ok") =>
        /\ colorbar.n = SwatchCount
        /\ colorbar.n >= 2 =>
               LET dx == Step
                   lo == colorbar.lo
                   n  == colorbar.n
               IN  \A k \in 0..(n - 1) :
                       LET r == Swatch(colorbar, k)
                       IN  /\ r.kind = "Rectangle"
                           /\ SameF(r.pts[1][1], FAdd(lo, FMul(F(k), dx)))
                           /\ SameF(r.pts[2][1], FAdd(lo, FMul(F(k + 1), dx)))
                           /\ r.pts[1][2] = F(0)
                           /\ r.pts[2][2] = F(1)
                           /\ k + 1 < n => SameF(r.pts[2][1], Left(k + 1))
                           /\ r.style.cmap = colorbar.cmap
                           /\ r.style.rgb = <<>>
                           /\ SameF(r.style.t, [n |-> k, d |-> n - 1])

\* tri::heatmap over values 0..2: 800 swatches, the first at gradient position
\* 0 and the last at 1
C5_Witness ==
    /\ op = "tri_heatmap"
    /\ pc = "done"
    /\ result = "Ok"
    /\ colorbar.drawn
    /\ colorbar.n = 800
    /\ FEq(colorbar.lo, F(0))
    /\ FEq(colorbar.hi, F(2))
    /\ FEq(Swatch(colorbar, 0).style.t, F(0))
    /\ FEq(Swatch(colorbar, 799).style.t, F(1))

\* the colorbar, of at least two swatches over a range min < max, of a call
\* that returned Ok
ProperColorbar ==
    /\ colorbar.drawn
    /\ result = "Ok"
    /\ colorbar.n >= 2
    /\ IsFinite(colorbar.lo)
    /\ IsFinite(colorbar.hi)
    /\ FLt(colorbar.lo, colorbar.hi)

\* C6 as stated: the swatches span exactly [min, max]: the first starts at
\* min, the last ends at max, none reaches below min or above max
C6_SwatchesSpanRange ==
    ProperColorbar =>
        /\ FEq(Left(0), colorbar.lo)
        /\ FEq(Right(colorbar.n - 1), colorbar.hi)
        /\ \A k \in 0..(colorbar.n - 1) :
               LET r == Swatch(colorbar, k)
               IN  FLe(colorbar.lo, r.pts[1][1]) /\ FLe(r.pts[2][1], colorbar.hi)

\* C6 amended: the left edges span [min, max]: the first swatch starts at min,
\* the last starts at max and ends at max + dx, no swatch reaches below min and
\* every swatch but the last lies within [min, max]
C6_LeftEdgesSpanRange ==
    ProperColorbar =>
        /\ FEq(Left(0), colorbar.lo)
        /\ FEq(Left(colorbar.n - 1), colorbar.hi)
        /\ FEq(Right(colorbar.n - 1), FAdd(colorbar.hi, Step))
        /\ FLt(colorbar.hi, Right(colorbar.n - 1))
        /\ \A k \in 0..(colorbar.n - 1) :
               LET r == Swatch(colorbar, k)
               IN  /\ FLe(colorbar.lo, r.pts[1][1])
                   /\ k < colorbar.n - 1 => FLe(r.pts[2][1], colorbar.hi)

\* a grid heatmap of 4 swatches over the data range 0..2
C6_Witness ==
    /\ op = "heatmap"
    /\ ProperColorbar
    /\ colorbar.n = 4
    /\ ~config.cmap_minmax.some
    /\ FEq(colorbar.lo, F(0))
    /\ FEq(colorbar.hi, F(2))
    /\ FEq(Right(3), [n |-> 8, d |-> 3])

\* the indices of the data elements that are not NaN
NonNaNData == {k \in 1..Len(data.map) : ~IsNaN(data.map[k])}

\* C7: in the grid heatmap a cmap_minmax = (lo, hi) of the Config is used as it
\* is to normalise every data value, u = (v - lo) / (hi - lo), and as the range
\* of the colorbar axis; without it the pair is (min of data, max of data)
\* (stated for the calls that return normally)
C7_GridRangeOverride ==
    (op \in GridOps /\ result = "Ok") =>
        /\ Len(unit_cells) = Len(data.map)
        /\ Len(chart) = Len(data.map)
        /\ config.cmap_minmax.some =>
               /\ cells_min = config.cmap_minmax.lo
               /\ cells_max = config.cmap_minmax.hi
               /\ \A k \in 1..Len(data.map) :
                      /\ SameF(unit_cells[k],
                               FDiv(FSub(data.map[k], config.cmap_minmax.lo),
                                    FSub(config.cmap_minmax.hi, config.cmap_minmax.lo)))
                      /\ SameF(chart[k].style.t, unit_cells[k])
               /\ colorbar.lo = config.cmap_minmax.lo
               /\ colorbar.hi = config.cmap_minmax.hi
        /\ (~config.cmap_minmax.some /\ NonNaNData # {}) =>
               /\ \E k \in NonNaNData : FEq(cells_min, data.map[k])
               /\ \A k \in NonNaNData : FLe(cells_min, data.map[k])
               /\ \E k \in NonNaNData : FEq(cells_max, data.map[k])
               /\ \A k \in NonNaNData : FLe(data.map[k], cells_max)
               /\ \A k \in 1..Len(data.map) :
                      /\ SameF(unit_cells[k], Unit(data.map[k], cells_min, cells_max))
                      /\ SameF(chart[k].style.t, unit_cells[k])
               /\ colorbar.lo = cells_min
               /\ colorbar.hi = cells_max

\* data 1, 2 under the override (0, 4): u = 1/4 and 1/2, colorbar axis 0..4
C7_Witness ==
    /\ op = "Heatmap_from"
    /\ config.cmap_minmax = Some(F(0), F(4))
    /\ data.map = <<F(1), F(2)>>
    /\ unit_cells = << [n |-> 1, d |-> 4], [n |-> 1, d |-> 2] >>
    /\ colorbar.lo = F(0)
    /\ colorbar.hi = F(4)

\* C8: in tri::heatmap the cmap_minmax of the Config is the range that
\* normalises the cell values and spans the colorbar, and the gradient of the
\* Config is the gradient of the triangles and of the colorbar
C8_TriHeatmapHonoursConfig ==
    (op = "tri_heatmap" /\ pc = "done" /\ result = "Ok") =>
        /\ config.cmap_minmax.some =>
               /\ cells_min = config.cmap_minmax.lo
               /\ cells_max = config.cmap_minmax.hi
               /\ colorbar.lo = config.cmap_minmax.lo
               /\ colorbar.hi = config.cmap_minmax.hi
        /\ colorbar.cmap = config.cmap
        /\ \A k \in 1..Len(chart) :
               chart[k].style # BLACK => chart[k].style.cmap = config.cmap

\* the normalised value of cell k, from the range of the map
U(k) == Norm(Unit(cells[k], cells_min, cells_max))

TriOps == {"trimesh", "Mesh_from_iter", "trimap", "tri_heatmap"}

\* C11: the three vertices drawn for every triangle (the first three points of
\* its polyline, the points of its polygon) are pairwise distinct and each is
\* one of the input points
C11_TriangleVerticesDistinct ==
    (op \in TriOps /\ pc = "done") =>
        \A k \in 1..Len(chart) :
            LET p == chart[k].pts
            IN  /\ p[1] # p[2]
                /\ p[1] # p[3]
                /\ p[2] # p[3]
                /\ \A j \in 1..3 : \E i \in 1..Len(x) : p[j] = <<x[i], y[i]>>

\* the inserted points span no area: fewer than three distinct points, or all
\* of them on one line
DegenerateInput ==
    \A i, j, k \in 1..Len(Vertices) : Orient(Vertices[i], Vertices[j], Vertices[k]) = 0

\* C12: a call on a degenerate point set fails with an error for the caller
\* and does not succeed with an empty set of triangles
C12_DegenerateInputFails ==
    (op \in TriOps /\ pc = "done" /\ DegenerateInput) => result = "Err"

\* C13: a map with no finite cell value and a grid heatmap without override
\* whose slice holds no finite value report an error and do not go on with the
\* range (+inf, -inf)
C13_EmptyRangeFails ==
    /\ (op \in MapOps /\ pc = "done" /\ \A k \in 1..Len(cells) : ~IsFinite(cells[k])) =>
           /\ result = "Err"
           /\ ~(cells_min = INFINITY /\ cells_max = NEG_INFINITY)
    /\ (/\ op \in GridOps
        /\ pc = "done"
        /\ WellFormedGrid
        /\ ~config.cmap_minmax.some
        /\ \A k \in 1..Len(data.map) : ~IsFinite(data.map[k])) =>
           /\ result = "Err"
           /\ ~(cells_min = INFINITY /\ cells_max = NEG_INFINITY)

\* the orders in which the points of s can be inserted
Perms(s) ==
    {[k \in 1..Len(s) |-> s[f[k]]] :
        f \in {g \in [1..Len(s) -> 1..Len(s)] : \A i, j \in 1..Len(s) : g[i] = g[j] => i = j}}

\* the triangles of tr as sets of positions
Topology(tr, verts) ==
    {{At(verts, tr[k][1]), At(verts, tr[k][2]), At(verts, tr[k][3])} : k \in 1..Len(tr)}

\* inserted in any order, the points give the triangles of this call
SameForEveryOrder ==
    \A q \in Perms(Zip(x, y)) : \A tr \in Triangulations(q) :
        Topology(tr, Insert(q)) = Topology(tri, Vertices)

\* C18 as stated: the triangles do not depend on the order of insertion, for
\* every point set, co-circular points included
C18_OrderIndependent ==
    (op = "trimesh" /\ pc = "done") => SameForEveryOrder

\* no vertex lies on the circumcircle of a triangle it is not a corner of
NoCocircularFace ==
    \A k \in 1..Len(tri) : \A s \in 0..(Len(Vertices) - 1) :
        s \notin {tri[k][1], tri[k][2], tri[k][3]} =>
            InCircle(Corners(k)[1], Corners(k)[2], Corners(k)[3], At(Vertices, s)) # 0

\* C18 amended: the triangles do not depend on the order of insertion when no
\* input point lies on the circumcircle of a triangle of the triangulation
C18_OrderIndependentUnlessCocircular ==
    (op = "trimesh" /\ pc = "done" /\ NoCocircularFace) => SameForEveryOrder

\* the strip: five points, three triangles, whatever the order of insertion
C18_Witness ==
    /\ op = "trimesh"
    /\ pc = "done"
    /\ Len(x) = 5
    /\ Len(tri) = 3
    /\ NoCocircularFace
    /\ Cardinality(Perms(Zip(x, y))) = 120
    /\ SameForEveryOrder

\* the bounding box of the points of a mesh has no width or no height
MeshBoxDegenerate ==
    /\ Len(x) > 0
    /\ \/ \A i, j \in 1..Len(x) : x[i] = x[j]
       \/ \A i, j \in 1..Len(y) : y[i] = y[j]

\* the x values of the items, and the points (x, y) they stand for
ItemXs == [k \in 1..Len(items) |-> items[k][1]]

\* the bounding box of the points of the items has no width or no height
ItemsBoxDegenerate ==
    /\ Len(FlatYs(items)) > 0
    /\ \/ \A i, j \in 1..Len(items) : items[i][1] = items[j][1]
       \/ \A i, j \in 1..Len(FlatYs(items)) : FlatYs(items)[i] = FlatYs(items)[j]

\* C14: a call whose points have a bounding box of zero width or zero height
\* returns an error value (Mesh from an iterator, Plot from items)
C14_DegenerateAxisRangeFails ==
    /\ (op = "Mesh_from_iter" /\ pc = "done" /\ MeshBoxDegenerate) => result = "Err"
    /\ (op = "Plot_from" /\ pc = "done" /\ ItemsBoxDegenerate) => result = "Err"

\* C15: tri::heatmap is all-or-nothing: when it returns an error no polygon and
\* no swatch has been drawn; when it returns Ok every polygon and the colorbar
\* have been drawn and the surface has been presented (stated for finite z)
C15_AllOrNothing ==
    (op = "tri_heatmap" /\ pc = "done" /\ \A k \in 1..Len(z) : IsFinite(z[k])) =>
        /\ result = "Err" => (Len(chart) = 0 /\ ~colorbar.drawn)
        /\ result = "Ok" => (Len(chart) = Len(tri) /\ colorbar.drawn /\ presented)

\* m is the least, M the greatest value of the non-empty sequence s
IsRangeOf(m, M, s) ==
    /\ \E k \in 1..Len(s) : FEq(m, s[k])
    /\ \A k \in 1..Len(s) : FLe(m, s[k])
    /\ \E k \in 1..Len(s) : FEq(M, s[k])
    /\ \A k \in 1..Len(s) : FLe(s[k], M)

\* C16: without a range from the caller the axes span the bounding box of all
\* input points, x from min x to max x and y from min y to max y; a range the
\* caller gives for an axis is the range of that axis
C16_AxisRange ==
    /\ (op = "Mesh_from_iter" /\ axes.built /\ Len(x) > 0) =>
           /\ IsRangeOf(axes.x_min, axes.x_max, AsF(x))
           /\ IsRangeOf(axes.y_min, axes.y_max, AsF(y))
    /\ (op = "Scatter_from" /\ axes.built) =>
           /\ IF pconfig.xaxis.range.some
              THEN axes.x_min = pconfig.xaxis.range.lo /\ axes.x_max = pconfig.xaxis.range.hi
              ELSE Len(items) > 0 => IsRangeOf(axes.x_min, axes.x_max, ItemXs)
           /\ IF pconfig.yaxis.range.some
              THEN axes.y_min = pconfig.yaxis.range.lo /\ axes.y_max = pconfig.yaxis.range.hi
              ELSE Len(FlatYs(items)) > 0 => IsRangeOf(axes.y_min, axes.y_max, FlatYs(items))

\* a scatter plot with the x range 0..20 from the caller and the y range 0..1
\* from two items with two y values each
C16_Witness ==
    /\ op = "Scatter_from"
    /\ result = "Ok"
    /\ Len(items) = 2
    /\ items[1][2] = <<F(0), F(1)>>
    /\ items[2][2] = <<F(0), F(1)>>
    /\ pconfig.xaxis.range = Some(F(0), F(20))
    /\ ~pconfig.yaxis.range.some
    /\ axes.x_min = F(0) /\ axes.x_max = F(20)
    /\ axes.y_min = F(0) /\ axes.y_max = F(1)

\* C17: in the grid heatmap an element whose value is NaN is drawn in black and
\* the call does not fail (stated for well-formed grids whose slice also holds a
\* finite value)
C17_GridNaNBlack ==
    (/\ op \in GridOps
     /\ pc = "done"
     /\ WellFormedGrid
     /\ \E k \in 1..Len(data.map) : IsFinite(data.map[k])) =>
        /\ \A k \in 1..Len(data.map) : IsNaN(data.map[k]) => chart[k].style = BLACK
        /\ result = "Ok"

\* every item has as many y values as the first
UniformItems == \A i \in 1..Len(items) : Len(items[i][2]) = Len(items[1][2])

\* C19: for every non-empty sequence of items with n_y y values each, Plot draws
\* n_y line series; series k holds the points (x[i], yk[i]) of all items in
\* input order and has colour k mod 10 of TABLEAU10
C19_PlotSeries ==
    (op \in {"Plot_from_iter", "Plot_from"} /\ pc = "done" /\ Len(items) > 0 /\ UniformItems) =>
        /\ Len(chart) = Len(items[1][2])
        /\ \A k \in 1..Len(chart) :
               /\ chart[k].kind = "LineSeries"
               /\ chart[k].pts = [i \in 1..Len(items) |-> <<items[i][1], items[i][2][k]>>]
               /\ chart[k].style.cmap = "TABLEAU10"
               /\ chart[k].style.t = F((k - 1) % 10)

\* C20: LogLin relabels the x axis only: an x label L of the Config becomes
\* "log10( L )" on the x axis, and the y axis has the label of the Config, or none
\* (stated for the calls that drew a series)
C20_LogLinLabels ==
    (op = "LogLin_from" /\ result = "Ok" /\ Len(chart) > 0) =>
        /\ axes.x_desc = IF pconfig.xaxis.label = NoString THEN NoString
                         ELSE SomeString(Log10Label(pconfig.xaxis.label[1]))
        /\ axes.y_desc = pconfig.yaxis.label

\* C21: for every triangle of the triangulation the coordinates drawn for a
\* vertex are the coordinates of that vertex in the triangulation, and the value
\* z[i] read for it is a value supplied with that point, also when a point is
\* given more than once
C21_VertexLookupAligned ==
    (op \in {"trimesh", "trimap"} /\ pc = "done") =>
        \A k \in 1..Len(tri) : \A j \in 1..3 :
            /\ chart[k].pts[j] = Corners(k)[j]
            /\ op = "trimap" =>
                   \E p \in 1..Len(x) :
                       /\ <<x[p], y[p]>> = Corners(k)[j]
                       /\ SameF(At(z, tri[k][j]), z[p])

\* the square drawn for element k (from 1) of the grid
Square(k) == chart[k].pts

\* the squares of elements k and l have no interior point in common
SquaresApart(k, l) ==
    \/ Square(k)[2][1] <= Square(l)[1][1]
    \/ Square(l)[2][1] <= Square(k)[1][1]
    \/ Square(k)[2][2] <= Square(l)[1][2]
    \/ Square(l)[2][2] <= Square(k)[1][2]

\* C22: in the grid heatmap element k (from 0) is drawn as the square with the
\* corners (osf*(k mod res), osf*(k div res)) and
\* (osf*(k mod res + 1), osf*(k div res + 1)); for a slice of rows*cols elements
\* the squares of distinct elements have disjoint interiors and together cover
\* [0, size] x [0, size], and every square lies inside the axis range of the chart
C22_GridSquares ==
    (op \in GridOps /\ result = "Ok" /\ WellFormedGrid) =>
        LET res  == data.rows
            osf  == config.osf
            size == res * osf
        IN  /\ \A k \in 1..Len(chart) :
                   Square(k) = << <<osf * ((k - 1) % res), osf * ((k - 1) \div res)>>,
                                  <<osf * (((k - 1) % res) + 1), osf * (((k - 1) \div res) + 1)>> >>
            /\ Len(data.map) = data.rows * data.cols =>
                   /\ \A k, l \in 1..Len(chart) : k # l => SquaresApart(k, l)
                   /\ \A u, v \in 0..(size - 1) :
                          \E k \in 1..Len(chart) :
                              /\ Square(k)[1][1] <= u /\ u + 1 <= Square(k)[2][1]
                              /\ Square(k)[1][2] <= v /\ v + 1 <= Square(k)[2][2]
                   /\ \A k \in 1..Len(chart) :
                          /\ FLe(axes.x_min, F(Square(k)[1][1]))
                          /\ FLe(F(Square(k)[2][1]), axes.x_max)
                          /\ FLe(axes.y_min, F(Square(k)[1][2]))
                          /\ FLe(F(Square(k)[2][2]), axes.y_max)

\* C23: Heatmap::from returns a Heatmap to its caller and never panics, whatever
\* the shape (stated for grids of at least one pixel whose slice holds a finite
\* value)
C23_HeatmapFromReturns ==
    (/\ op = "Heatmap_from"
     /\ pc = "done"
     /\ data.rows * config.osf >= 1
     /\ \E k \in 1..Len(data.map) : IsFinite(data.map[k])) =>
        result # "panic"

\* C24: in the grid heatmap of a square shape no integer computation leaves the
\* range of its type (size - 1 is not computed with size = 0) and the colorbar
\* step dx is not computed with size = 1
C24_NoIntegerOverflow ==
    (op \in GridOps /\ pc = "done" /\ data.rows = data.cols) =>
        /\ ~overflow
        /\ colorbar.drawn => colorbar.n # 1

\* the value a field of Config holds after its setter was last called with arg
Stored(f, arg) ==
    CASE f = "filename"    -> SomeString(arg)
      [] f = "title"       -> SomeString(arg)
      [] f = "cmap_minmax" -> Some(arg[1], arg[2])
      [] OTHER             -> arg

\* C25: after any sequence of setter calls on Config::new() each field holds
\* the argument of the last setter call for that field, or its default when the
\* setter was never called (no filename, no title, no x label, VIRIDIS, no
\* cmap_minmax, osf = 1), and a setter step changes no field but its own
C25_ConfigSetters ==
    /\ [](/\ \A f \in Fields :
                 builder[f] = (IF last[f] = <<>> THEN ConfigDefault[f]
                                                 ELSE Stored(f, last[f][1]))
          /\ builder.cmap = "VIRIDIS"
          /\ ConfigDefault = [filename |-> <<>>, title |-> <<>>, xaxis |-> [label |-> <<>>],
                              cmap |-> "VIRIDIS", cmap_minmax |-> None, osf |-> 1])
    /\ [][/\ builder'.cmap = builder.cmap
          /\ \A f \in Fields : last'[f] = last[f] => builder'[f] = builder[f]
          /\ (last' # NeverSet) =>
                 Cardinality({f \in Fields : builder'[f] # builder[f]}) <= 1]_vars

\* a Config on which the file name and the over-sampling factor were set, the
\* file name last to "b.png", and the title and the value range never
C25_Witness ==
    /\ pc = "idle"
    /\ last.filename = <<"b.png">> /\ builder.filename = SomeString("b.png")
    /\ last.osf = <<2>> /\ builder.osf = 2
    /\ last.xaxis = <<AxisLabel(XAxisNew, "x")>> /\ builder.xaxis.label = SomeString("x")
    /\ last.title = <<>> /\ builder.title = NoString
    /\ last.cmap_minmax = <<>> /\ builder.cmap_minmax = None

====
